---- MODULE Spec2Model ----
(***************************************************************************)
(* Fixed-width unsigned integer Bigint<bits> of src/bigint.h.              *)
(*                                                                         *)
(* A value is its storage array: a function from the word indices          *)
(* 0..n-1 to words, least significant word first, n = bits / 32.           *)
(* TLC's integers are 32 bits wide, so the word is scaled: a word has      *)
(* WordBits bits, and the 64-bit unsigned long long the code computes in   *)
(* has LongBits = 2 * WordBits bits, the ratio of the source.  Every       *)
(* operator walks the words in the order of the code, with the code's      *)
(* carries, borrows and casts.                                             *)
(*                                                                         *)
(* Each family of operations has its own specification over the same       *)
(* variables; a variable a specification does not use stays NoValue.       *)
(* The arithmetic specifications start at two words (the default width,    *)
(* bits = 64): at one word every Bigint temporary writes storage[1]        *)
(* outside its array, which AccessSpec shows, and what follows such a      *)
(* write is undefined.                                                     *)
(***************************************************************************)
EXTENDS Integers, Sequences, FiniteSets, TLC

VARIABLES
    n,        \* bits / (sizeof(unsigned int) * 8): the number of words
    pc,       \* position of the running call
    a,        \* *this of the running call
    b,        \* its first argument
    m,        \* its second argument (the modulus of exponentiation)
    loc,      \* the locals of the running call
    res,      \* what the call has returned
    touched,  \* the word indices the running call has read or written
    text,     \* the string handed to Bigint(const char *)
    out       \* the characters written to the stream

vars == <<n, pc, a, b, m, loc, res, touched, text, out>>

---------------------------------------------------------------------------
(* Bounds of the model *)

\* bits of one storage word (the source's unsigned int has 32)
WordBits == 2
\* largest number of words of a value in the arithmetic specifications
MaxWords == 2
\* largest number of words of a value in the specifications of one operand
\* (construction, shifts, text)
MaxUnaryWords == 3
\* bits of one digit of the text form (a hexadecimal digit has 4)
DigitBits == 1

(* Program constants *)

\* template <unsigned int bits = 64>: the default width, in words
DefaultWords == 2
\* for (unsigned short k = 0; k < 100; ++k)
Trials == 100

---------------------------------------------------------------------------
(* Words *)

RECURSIVE Pow(_, _)
Pow(x, e) == IF e = 0 THEN 1 ELSE x * Pow(x, e - 1)

\* 2^32 in the source: one more than the largest unsigned int
WordMod == Pow(2, WordBits)
\* sizeof(unsigned long long) * 8
LongBits == 2 * WordBits
LongMod == Pow(2, LongBits)
Word == 0 .. (WordMod - 1)
Idx == 0 .. (n - 1)
Values == [Idx -> Word]

\* the numeric value of a storage array
RECURSIVE ValUp(_, _)
ValUp(x, i) == IF i >= n THEN 0 ELSE x[i] + WordMod * ValUp(x, i + 1)
Val(x) == ValUp(x, 0)

\* number of significant bits of one word: 32 - __builtin_clz(w), w # 0
RECURSIVE BitLen(_)
BitLen(w) == IF w = 0 THEN 0 ELSE 1 + BitLen(w \div 2)

\* (unsigned int) cast of an unsigned long long
LowWord(t) == t % WordMod
\* t >> (8 * sizeof(unsigned int))
HighWord(t) == (t \div WordMod) % WordMod

---------------------------------------------------------------------------
(* Construction *)

\* Bigint(const unsigned long long &x): zero-filled, x in the two lowest words
Bigint(x) ==
    [i \in Idx |-> IF i = 0 THEN LowWord(x % LongMod)
                   ELSE IF i = 1 THEN HighWord(x % LongMod)
                   ELSE 0]

---------------------------------------------------------------------------
(* Comparison and introspection *)

\* operator==
Eq(x, y) == \A i \in Idx : x[i] = y[i]

\* operator!=
Ne(x, y) == \E i \in Idx : x[i] # y[i]

\* operator<: the first index from the top where either word is non-zero decides
RECURSIVE LtFrom(_, _, _)
LtFrom(x, y, i) ==
    IF i < 0 THEN FALSE
    ELSE IF x[i] # 0 \/ y[i] # 0 THEN x[i] < y[i]
    ELSE LtFrom(x, y, i - 1)

Lt(x, y) == LtFrom(x, y, n - 1)

\* operator>
RECURSIVE GtFrom(_, _, _)
GtFrom(x, y, i) ==
    IF i < 0 THEN FALSE
    ELSE IF x[i] # 0 \/ y[i] # 0 THEN x[i] > y[i]
    ELSE GtFrom(x, y, i - 1)

Gt(x, y) == GtFrom(x, y, n - 1)

\* num_bits: skip the zero words from the top, then count within the word
RECURSIVE TopIndex(_, _)
TopIndex(x, i) == IF i > 0 /\ x[i] = 0 THEN TopIndex(x, i - 1) ELSE i

num_bits(x) ==
    LET i == TopIndex(x, n - 1)
    IN  IF x[i] = 0 THEN i * WordBits
        ELSE (i + 1) * WordBits - (WordBits - BitLen(x[i]))

is_odd(x) == x[0] % 2 = 1
is_even(x) == x[0] % 2 = 0

---------------------------------------------------------------------------
(* Core arithmetic *)

\* operator+: ripple carry, the carry out of the top word is dropped
RECURSIVE AddFrom(_, _, _, _, _)
AddFrom(x, y, i, carry, r) ==
    IF i >= n THEN r
    ELSE LET temp == (x[i] + y[i] + carry) % LongMod
         IN  AddFrom(x, y, i + 1, HighWord(temp), [r EXCEPT ![i] = LowWord(temp)])

Add(x, y) == AddFrom(x, y, 0, 0, Bigint(0))

\* operator-: the borrow is the top bit of the wrapped unsigned long long
RECURSIVE SubFrom(_, _, _, _, _)
SubFrom(x, y, i, borrow, r) ==
    IF i >= n THEN r
    ELSE LET temp == (x[i] - (y[i] + borrow)) % LongMod
         IN  SubFrom(x, y, i + 1, temp \div Pow(2, LongBits - 1),
                     [r EXCEPT ![i] = LowWord(temp)])

Sub(x, y) == SubFrom(x, y, 0, 0, Bigint(0))

\* operator*: schoolbook rows; a product word at index >= n ends the row
RECURSIVE MulRow(_, _, _, _, _, _)
MulRow(x, y, i, j, carry, r) ==
    IF j >= n \/ i + j >= n THEN r
    ELSE LET temp == (r[i + j] + x[i] * y[j] + carry) % LongMod
         IN  MulRow(x, y, i, j + 1, temp \div WordMod,
                    [r EXCEPT ![i + j] = LowWord(temp)])

RECURSIVE MulFrom(_, _, _, _)
MulFrom(x, y, i, r) ==
    IF i >= n THEN r ELSE MulFrom(x, y, i + 1, MulRow(x, y, i, 0, 0, r))

Mul(x, y) == MulFrom(x, y, 0, Bigint(0))

\* storage[i] << lshift, in one word
WordShl(w, s) == (w * Pow(2, s)) % WordMod
\* storage[i] >> rshift, in one word (a shift by the whole word width never occurs)
WordShr(w, s) == w \div Pow(2, s)
\* bitwise or of two words whose set bits do not overlap is their sum; in general:
RECURSIVE WordOr(_, _)
WordOr(u, v) ==
    IF u = 0 THEN v
    ELSE IF v = 0 THEN u
    ELSE (IF u % 2 = 1 \/ v % 2 = 1 THEN 1 ELSE 0) + 2 * WordOr(u \div 2, v \div 2)

\* operator<<: the loop from the top word down to full_shifts + 1
RECURSIVE ShlFrom(_, _, _, _, _)
ShlFrom(x, i, full_shifts, lshift, ret) ==
    IF i <= full_shifts THEN ret
    ELSE LET lo == IF lshift = 0 THEN WordShl(x[i - full_shifts], lshift)
                   ELSE WordOr(WordShl(x[i - full_shifts], lshift),
                               WordShr(x[i - full_shifts - 1], WordBits - lshift))
         IN  ShlFrom(x, i - 1, full_shifts, lshift, [ret EXCEPT ![i] = lo])

\* operator<<
Shl(x, shift) ==
    IF shift >= n * WordBits THEN Bigint(0)
    ELSE LET full_shifts == shift \div WordBits
             lshift == shift % WordBits
             ret == ShlFrom(x, n - 1, full_shifts, lshift, Bigint(0))
         IN  [ret EXCEPT ![full_shifts] = WordShl(x[0], lshift)]

\* operator>>: the loop over i < cnt (small_shift == 0) or i < cnt - 1
RECURSIVE ShrFrom(_, _, _, _, _, _)
ShrFrom(x, i, last, full_shifts, small_shift, ret) ==
    IF i >= last THEN ret
    ELSE LET lo == IF small_shift = 0 THEN x[i + full_shifts]
                   ELSE WordOr(WordShr(x[i + full_shifts], small_shift),
                               WordShl(x[i + full_shifts + 1], WordBits - small_shift))
         IN  ShrFrom(x, i + 1, last, full_shifts, small_shift, [ret EXCEPT ![i] = lo])

\* operator>>
Shr(x, shift) ==
    IF shift >= n * WordBits THEN Bigint(0)
    ELSE LET full_shifts == shift \div WordBits
             small_shift == shift % WordBits
             cnt == n - full_shifts
         IN  IF small_shift = 0
             THEN ShrFrom(x, 0, cnt, full_shifts, small_shift, Bigint(0))
             ELSE [ShrFrom(x, 0, cnt - 1, full_shifts, small_shift, Bigint(0))
                     EXCEPT ![cnt - 1] = WordShr(x[cnt - 1 + full_shifts], small_shift)]

\* the most significant bit of the most significant word
TopBit(x) == x[n - 1] \div Pow(2, WordBits - 1)

---------------------------------------------------------------------------
(* Division engine *)

\* unsigned int bd = this->num_bits() - x.num_bits(): a bit count, not a storage
\* word, so it keeps its range when the word is scaled.  Past the a < b return
\* the difference is never negative (the bd >= 0 conjunct of
\* C10_ModTrueRemainder states it for operator%).
BitDiff(x, y) == num_bits(x) - num_bits(y)

\* operator/: one pass of the while (true) loop and the passes after it;
\* d = 1 - (r.storage[ms_part] >> bitsize_m_1), committed when d != 0
RECURSIVE DivLoop(_, _, _, _, _)
DivLoop(rem, quo, c, e, bd) ==
    LET r == Sub(rem, c)
        d == 1 - TopBit(r)
        rem1 == IF d # 0 THEN r ELSE rem
        quo1 == IF d # 0 THEN Add(quo, e) ELSE quo
    IN  IF bd = 0 THEN quo1
        ELSE DivLoop(rem1, quo1, Shr(c, 1), Shr(e, 1), bd - 1)

\* operator/
Div(x, y) ==
    IF Lt(x, y) THEN x
    ELSE LET bd == BitDiff(x, y)
         IN  DivLoop(x, Bigint(0), Shl(y, bd), Shl(Bigint(1), bd), bd)

\* operator%: the loop's state on entry (rem, c, bd)
ModEnter(x, y) ==
    LET bd == BitDiff(x, y)
    IN  [rem |-> x, c |-> Shl(y, bd), bd |-> bd, r |-> Bigint(0), d |-> 0]

\* r = rem - c; d = r.storage[ms_part] >> bitsize_m_1
ModTest(s) ==
    LET r == Sub(s.rem, s.c)
    IN  [r |-> r, d |-> TopBit(r)]

\* operator%'s test written as operator/'s, d != 0
ModCommitAsDiv(s) ==
    LET t == ModTest(s)
    IN  IF t.d # 0 THEN t.r ELSE s.rem

\* if (d == 0) rem = r
ModCommit(s) ==
    LET t == ModTest(s)
    IN  IF t.d = 0 THEN t.r ELSE s.rem

\* c = c >> 1 after if (bd-- == 0) break
ModAdvance(s) ==
    LET t == ModTest(s)
    IN  [rem |-> ModCommit(s), c |-> Shr(s.c, 1), bd |-> s.bd - 1, r |-> t.r, d |-> t.d]

RECURSIVE ModLoop(_)
ModLoop(s) == IF s.bd = 0 THEN ModCommit(s) ELSE ModLoop(ModAdvance(s))

\* operator%
Mod(x, y) == IF Lt(x, y) THEN x ELSE ModLoop(ModEnter(x, y))

---------------------------------------------------------------------------
(* Number-theoretic algorithms *)

\* gcd's pass with the operands of % exchanged
GcdStepSwapped(s) == [a |-> s.b_temp, b_temp |-> Mod(s.b_temp, s.a)]

\* gcd: one pass of while (b_temp != null)
GcdStep(s) == [a |-> s.b_temp, b_temp |-> Mod(s.a, s.b_temp)]

RECURSIVE GcdLoop(_)
GcdLoop(s) == IF Ne(s.b_temp, Bigint(0)) THEN GcdLoop(GcdStep(s)) ELSE s.a

gcd(x, y) == GcdLoop([a |-> x, b_temp |-> y])

\* exponentiation: one pass of while (b_temp != null)
ExpStep(s, mod) ==
    [a |-> Mod(Mul(s.a, s.a), mod),
     b_temp |-> Shr(s.b_temp, 1),
     c |-> IF is_odd(s.b_temp) THEN Mod(Mul(s.c, s.a), mod) ELSE s.c]

RECURSIVE ExpLoop(_, _)
ExpLoop(s, mod) == IF Ne(s.b_temp, Bigint(0)) THEN ExpLoop(ExpStep(s, mod), mod) ELSE s.c

exponentiation(x, e, mod) == ExpLoop([a |-> x, b_temp |-> e, c |-> Bigint(1)], mod)

\* inverse: the locals on entry
InverseEnter(x, y) ==
    [a |-> x, b_temp |-> y, x0 |-> Bigint(0), x0_sign |-> FALSE,
     x1 |-> Bigint(1), x1_sign |-> FALSE]

\* inverse: one pass of while (a > 1)
InverseStep(s) ==
    LET q == Div(s.a, s.b_temp)
        qx0 == Mul(q, s.x0)
        bigger == Gt(s.x1, qx0)
    IN  [a |-> s.b_temp,
         b_temp |-> Mod(s.a, s.b_temp),
         x0 |-> IF s.x0_sign # s.x1_sign THEN Add(s.x1, qx0)
                ELSE IF bigger THEN Sub(s.x1, qx0) ELSE Sub(qx0, s.x1),
         x0_sign |-> IF s.x0_sign # s.x1_sign THEN s.x1_sign
                     ELSE IF bigger THEN s.x1_sign ELSE ~s.x0_sign,
         x1 |-> s.x0,
         x1_sign |-> s.x0_sign]

\* inverse's return with the sign of x1 forgotten
InverseReturnUnsigned(s, y) == s.x1

\* return x1_sign ? b - x1 : x1
InverseReturn(s, y) == IF s.x1_sign THEN Sub(y, s.x1) ELSE s.x1

RECURSIVE InverseLoop(_, _)
InverseLoop(s, y) ==
    IF Gt(s.a, Bigint(1)) THEN InverseLoop(InverseStep(s), y) ELSE InverseReturn(s, y)

inverse(x, y) == InverseLoop(InverseEnter(x, y), y)

\* rng: the number of words it overwrites
RngCount(size_max) == IF size_max = 0 THEN n ELSE size_max \div WordBits

\* rng: storage[i] = rd() for i < the count; rd holds the words the device returns
rng(x, size_max, rd) ==
    [i \in Idx |-> IF i < RngCount(size_max) THEN rd[i] ELSE x[i]]

\* prime_check: the locals before the loop
PrimeEnter(x) == [high |-> Sub(x, Bigint(1)), a |-> Bigint(0), k |-> 0]

\* prime_check: what one trial with the drawn base x decides
TrialVerdict(this, x, high) ==
    IF Ne(gcd(this, x), Bigint(1)) THEN "composite"
    ELSE IF Ne(exponentiation(x, high, this), Bigint(1)) THEN "composite"
    ELSE "pass"

---------------------------------------------------------------------------
(* Text I/O.  A digit of the text form has DigitBits bits; a word holds     *)
(* DigitsPerWord of them (8 hexadecimal digits in the source).              *)

DigitMod == Pow(2, DigitBits)
Digit == 0 .. (DigitMod - 1)
\* a character isxdigit rejects
NonHex == DigitMod
DigitsPerWord == WordBits \div DigitBits

\* string_check
string_check(x) == \A i \in 1 .. Len(x) : x[i] \in Digit

\* the number a run of digits denotes
RECURSIVE DigitsValue(_)
DigitsValue(x) ==
    IF Len(x) = 0 THEN 0
    ELSE DigitsValue(SubSeq(x, 1, Len(x) - 1)) * DigitMod + x[Len(x)]

\* sscanf(x, "%X", &storage[0]) of the whole string: the words it may store.
\* A value that does not fit an unsigned int is undefined behaviour; the C
\* libraries either keep the low word (a 64-bit strtoul, then the cast) or
\* store the saturated unsigned long (a 32-bit strtoul).
ScanWhole(x) ==
    LET v == DigitsValue(x)
    IN  IF v < WordMod THEN {v} ELSE {v % WordMod, WordMod - 1}

\* the runs: sscanf(startpos, "%8X", &storage[i]), startpos -= 8
RECURSIVE ScanRuns(_, _, _, _)
ScanRuns(x, i, number_of_runs, st) ==
    IF i >= number_of_runs THEN st
    ELSE LET last == Len(x) - DigitsPerWord * i
         IN  ScanRuns(x, i + 1, number_of_runs,
                      [st EXCEPT ![i] = DigitsValue(SubSeq(x, last - DigitsPerWord + 1, last))])

\* Bigint(const char *const &x) past string_check: the values it may build
FromHex(x) ==
    LET number_of_runs == Len(x) \div DigitsPerWord
        part == Len(x) % DigitsPerWord
    IN  IF number_of_runs > 1
        THEN LET st == ScanRuns(x, 0, number_of_runs, Bigint(0))
             IN  IF part # 0
                 THEN {[st EXCEPT ![number_of_runs] = DigitsValue(SubSeq(x, 1, part))]}
                 ELSE {st}
        ELSE IF Len(x) = 0 THEN {Bigint(0)}
        ELSE {[Bigint(0) EXCEPT ![0] = w] : w \in ScanWhole(x)}

\* os << std::hex << w: the digits of a word, none for zero
RECURSIVE WordDigits(_)
WordDigits(w) == IF w = 0 THEN <<>> ELSE Append(WordDigits(w \div DigitMod), w % DigitMod)

\* os << std::setw(8) << std::setfill('0') << w
RECURSIVE Padded(_, _)
Padded(d, width) == IF Len(d) >= width THEN d ELSE Padded(<<0>> \o d, width)

\* operator<<(std::ostream &, const Bigint &): the loop from the top word down
RECURSIVE ToHexFrom(_, _, _, _)
ToHexFrom(x, i, isnull, os) ==
    IF i < 0 THEN IF isnull THEN os \o <<0>> ELSE os
    ELSE IF isnull
         THEN IF x[i] # 0 THEN ToHexFrom(x, i - 1, FALSE, os \o WordDigits(x[i]))
              ELSE ToHexFrom(x, i - 1, TRUE, os)
         ELSE ToHexFrom(x, i - 1, FALSE, os \o Padded(WordDigits(x[i]), DigitsPerWord))

ToHex(x) == ToHexFrom(x, n - 1, TRUE, <<>>)

---------------------------------------------------------------------------
(* The word indices an operation reads or writes *)

\* Bigint(const unsigned long long &): new unsigned int[n]{0}, then
\* storage[0] = x and storage[1] = x >> 32
CtorTouched == Idx \cup {0, 1}

\* operator<<: the temporary ret, then the loop's reads and writes
ShlTouched(shift) ==
    CtorTouched \cup
    IF shift >= n * WordBits THEN {}
    ELSE LET full_shifts == shift \div WordBits
             lshift == shift % WordBits
             loop == (full_shifts + 1) .. (n - 1)
         IN  loop \cup {i - full_shifts : i \in loop}
                  \cup (IF lshift = 0 THEN {} ELSE {i - full_shifts - 1 : i \in loop})
                  \cup {full_shifts, 0}

\* operator>>
ShrTouched(shift) ==
    CtorTouched \cup
    IF shift >= n * WordBits THEN {}
    ELSE LET full_shifts == shift \div WordBits
             small_shift == shift % WordBits
             cnt == n - full_shifts
         IN  IF small_shift = 0
             THEN (0 .. (cnt - 1)) \cup {i + full_shifts : i \in 0 .. (cnt - 1)}
             ELSE (0 .. (cnt - 2)) \cup {i + full_shifts : i \in 0 .. (cnt - 2)}
                  \cup {i + full_shifts + 1 : i \in 0 .. (cnt - 2)}
                  \cup {cnt - 1, cnt - 1 + full_shifts}

---------------------------------------------------------------------------
(* The integers the claims compare against *)

\* 2^bits
Full == Pow(WordMod, n)

RECURSIVE MathGcd(_, _)
MathGcd(x, y) == IF y = 0 THEN x ELSE MathGcd(y, x % y)

\* x^e mod md over the integers, reduced at every factor
RECURSIVE MathPowMod(_, _, _)
MathPowMod(x, e, md) == IF e = 0 THEN 1 % md ELSE (x * MathPowMod(x, e - 1, md)) % md

IsPrime(p) == p >= 2 /\ \A d \in 2 .. (p - 1) : p % d # 0

\* a variable the running specification does not use
NoValue == <<>>

---------------------------------------------------------------------------
(* Comparison: a < b, a > b and a == b of two values of one width *)

CmpInit ==
    /\ n \in DefaultWords .. MaxWords
    /\ pc = "call"
    /\ a \in Values
    /\ b \in Values
    /\ m = NoValue /\ loc = NoValue /\ res = NoValue
    /\ touched = NoValue /\ text = NoValue /\ out = NoValue

Compare ==
    /\ pc = "call"
    /\ pc' = "ret"
    /\ res' = [lt |-> Lt(a, b), gt |-> Gt(a, b), eq |-> Eq(a, b), ne |-> Ne(a, b)]
    /\ UNCHANGED <<n, a, b, m, loc, touched, text, out>>

CmpNext == Compare

CmpSpec == CmpInit /\ [][CmpNext]_vars

---------------------------------------------------------------------------
(* Division: a / b, then a % b, on the same operands *)

DivInit ==
    /\ n \in DefaultWords .. MaxWords
    /\ pc = "call"
    /\ a \in Values
    /\ b \in Values
    /\ m = NoValue /\ loc = NoValue /\ res = NoValue
    /\ touched = NoValue /\ text = NoValue /\ out = NoValue

\* operator/ holds no throw: every call ends by returning a value
CallDiv ==
    /\ pc = "call"
    /\ pc' = "divided"
    /\ res' = [kind |-> "value", quo |-> Div(a, b)]
    /\ UNCHANGED <<n, a, b, m, loc, touched, text, out>>

\* operator% holds no throw either
CallMod ==
    /\ pc = "divided"
    /\ pc' = "ret"
    /\ res' = [kind |-> "value", quo |-> res.quo, rem |-> Mod(a, b)]
    /\ UNCHANGED <<n, a, b, m, loc, touched, text, out>>

DivNext == CallDiv \/ CallMod

DivSpec == DivInit /\ [][DivNext]_vars

\* C1: for b != 0, (a / b) * b + (a % b) == a modulo 2^bits, and for a < b
\* the quotient is 0 and the remainder a.
C1_DivModIdentity ==
    pc = "ret" /\ Val(b) # 0 =>
        /\ (Val(res.quo) * Val(b) + Val(res.rem)) % Full = Val(a)
        /\ Val(a) < Val(b) => Val(res.quo) = 0 /\ res.rem = a

\* C2: a call of operator/ or operator% with a zero divisor ends in the
\* DivisionByZero error, never in an ordinary value.
C2_DivisionByZeroRaised ==
    pc \in {"divided", "ret"} /\ Val(b) = 0 => res.kind = "DivisionByZero"

---------------------------------------------------------------------------
(* operator%, pass by pass *)

ModInit ==
    /\ n \in DefaultWords .. MaxWords
    /\ pc = "call"
    /\ a \in Values
    /\ b \in Values
    /\ m = NoValue /\ loc = NoValue /\ res = NoValue
    /\ touched = NoValue /\ text = NoValue /\ out = NoValue

\* if (*this < x) return *this
ModFast ==
    /\ pc = "call"
    /\ Lt(a, b)
    /\ pc' = "ret"
    /\ res' = a
    /\ UNCHANGED <<n, a, b, m, loc, touched, text, out>>

\* the declarations before while (true)
ModEnterLoop ==
    /\ pc = "call"
    /\ ~Lt(a, b)
    /\ pc' = "test"
    /\ loc' = ModEnter(a, b)
    /\ UNCHANGED <<n, a, b, m, res, touched, text, out>>

\* r = rem - c and d
ModTestStep ==
    /\ pc = "test"
    /\ pc' = "commit"
    /\ loc' = [loc EXCEPT !.r = ModTest(loc).r, !.d = ModTest(loc).d]
    /\ UNCHANGED <<n, a, b, m, res, touched, text, out>>

\* if (d == 0) rem = r; if (bd-- == 0) break; c = c >> 1
ModCommitStep ==
    /\ pc = "commit"
    /\ loc.bd # 0
    /\ pc' = "test"
    /\ loc' = ModAdvance(loc)
    /\ UNCHANGED <<n, a, b, m, res, touched, text, out>>

\* the last pass, and return rem
ModReturn ==
    /\ pc = "commit"
    /\ loc.bd = 0
    /\ pc' = "ret"
    /\ res' = ModCommit(loc)
    /\ UNCHANGED <<n, a, b, m, loc, touched, text, out>>

ModNext == ModFast \/ ModEnterLoop \/ ModTestStep \/ ModCommitStep \/ ModReturn

ModSpec == ModInit /\ [][ModNext]_vars

\* C10: for b != 0, a % b is the true remainder, and at every pass of the
\* shift-and-subtract loop the top-bit test on the wrapped difference rem - c
\* commits the subtraction exactly when rem >= c (the pass counter bd never
\* went below zero).
C10_ModTrueRemainder ==
    Val(b) # 0 =>
        /\ pc \in {"test", "commit"} => loc.bd >= 0
        /\ pc = "commit" => (loc.d = 0 <=> Val(loc.rem) >= Val(loc.c))
        /\ pc = "ret" => /\ Val(res) = Val(a) % Val(b)
                         /\ Val(res) < Val(b)
                         /\ (Val(a) - Val(res)) % Val(b) = 0

\* a dividend with bit bits-1 set went through the loop, committing in a pass
C10_Witness ==
    /\ pc = "commit"
    /\ TopBit(a) = 1
    /\ Val(b) > 1
    /\ loc.d = 0
    /\ loc.bd = 0
    /\ Val(loc.rem) < Val(a)

---------------------------------------------------------------------------
(* gcd, pass by pass, at the default width; loc holds the locals a and b_temp *)

GcdInit ==
    /\ n = DefaultWords
    /\ pc = "call"
    /\ a = NoValue /\ b = NoValue /\ m = NoValue /\ loc = NoValue /\ res = NoValue
    /\ touched = NoValue /\ text = NoValue /\ out = NoValue

\* a call x.gcd(y): Bigint a = *this; Bigint b_temp = b
GcdEnter ==
    /\ pc = "call"
    /\ \E x \in Values, y \in Values :
         /\ a' = x
         /\ b' = y
         /\ loc' = [a |-> x, b_temp |-> y]
    /\ pc' = "loop"
    /\ UNCHANGED <<n, m, res, touched, text, out>>

\* one pass of while (b_temp != null)
GcdPass ==
    /\ pc = "loop"
    /\ Ne(loc.b_temp, Bigint(0))
    /\ loc' = GcdStep(loc)
    /\ UNCHANGED <<n, pc, a, b, m, res, touched, text, out>>

\* return a
GcdReturn ==
    /\ pc = "loop"
    /\ ~Ne(loc.b_temp, Bigint(0))
    /\ pc' = "ret"
    /\ res' = loc.a
    /\ UNCHANGED <<n, a, b, m, loc, touched, text, out>>

GcdNext == GcdEnter \/ GcdPass \/ GcdReturn

GcdSpec == GcdInit /\ [][GcdNext]_vars

\* C8: gcd terminates: every pass replaces (a, b) with (b, a mod b) and the
\* new second operand is strictly smaller than the old one (a natural number
\* that falls at every pass, so the passes are finitely many), and the call
\* returns a once b is zero.
C8_GcdTerminates ==
    [][/\ pc = "loop" /\ pc' = "loop" =>
            /\ loc'.a = loc.b_temp
            /\ Val(loc'.b_temp) = Val(loc.a) % Val(loc.b_temp)
            /\ Val(loc'.b_temp) < Val(loc.b_temp)
       /\ pc = "loop" /\ pc' = "ret" => Val(loc.b_temp) = 0 /\ res' = loc.a]_vars

\* a call with multi-word operands, the second not zero, has returned: its
\* passes brought b_temp down to zero
C8_Witness ==
    /\ pc = "ret"
    /\ Val(b) > WordMod
    /\ Val(a) > Val(b)
    /\ Val(a) % Val(b) # 0
    /\ Val(loc.b_temp) = 0
    /\ Val(res) = MathGcd(Val(a), Val(b))

---------------------------------------------------------------------------
(* inverse, pass by pass, at the default width *)

InvInit ==
    /\ n = DefaultWords
    /\ pc = "loop"
    /\ a \in Values
    /\ b \in Values
    /\ loc = InverseEnter(a, b)
    /\ m = NoValue /\ res = NoValue
    /\ touched = NoValue /\ text = NoValue /\ out = NoValue

\* one pass of while (a > 1)
InvPass ==
    /\ pc = "loop"
    /\ Gt(loc.a, Bigint(1))
    /\ loc' = InverseStep(loc)
    /\ UNCHANGED <<n, pc, a, b, m, res, touched, text, out>>

\* return x1_sign ? b - x1 : x1
InvReturn ==
    /\ pc = "loop"
    /\ ~Gt(loc.a, Bigint(1))
    /\ pc' = "ret"
    /\ res' = InverseReturn(loc, b)
    /\ UNCHANGED <<n, a, b, m, loc, touched, text, out>>

InvNext == InvPass \/ InvReturn

InvSpec == InvInit /\ [][InvNext]_vars

\* the signed value of a (magnitude, sign) pair
Signed(mag, sign) == IF sign THEN 0 - Val(mag) ELSE Val(mag)

\* C5: for b > 1 and gcd(a, b) = 1, both for a < b and for a >= b,
\* x = a.inverse(b) satisfies (a * x) mod b = 1 over the integers; on the way
\* the (magnitude, sign) pairs hold the signed Bezout coefficients of a:
\* a * x1 is congruent to the local a, and a * x0 to the local b_temp, modulo b.
C5_InverseIsInverse ==
    Val(b) > 1 /\ MathGcd(Val(a), Val(b)) = 1 =>
        /\ pc = "loop" =>
             /\ (Val(a) * Signed(loc.x1, loc.x1_sign) - Val(loc.a)) % Val(b) = 0
             /\ (Val(a) * Signed(loc.x0, loc.x0_sign) - Val(loc.b_temp)) % Val(b) = 0
        /\ pc = "ret" => (Val(a) * Val(res)) % Val(b) = 1

\* a returned inverse of a multi-word a < b whose coefficient ended negative
C5_Witness ==
    /\ pc = "ret"
    /\ Val(b) > WordMod
    /\ Val(a) > WordMod
    /\ Val(a) < Val(b)
    /\ MathGcd(Val(a), Val(b)) = 1
    /\ loc.x1_sign
    /\ (Val(a) * Val(res)) % Val(b) = 1

---------------------------------------------------------------------------
(* exponentiation, at the default width *)

ExpInit ==
    /\ n = DefaultWords
    /\ pc = "call"
    /\ a \in Values
    /\ b \in Values
    /\ m \in Values
    /\ loc = NoValue /\ res = NoValue
    /\ touched = NoValue /\ text = NoValue /\ out = NoValue

\* a.exponentiation(b, m)
CallExp ==
    /\ pc = "call"
    /\ pc' = "ret"
    /\ res' = exponentiation(a, b, m)
    /\ UNCHANGED <<n, a, b, m, loc, touched, text, out>>

ExpNext == CallExp

ExpSpec == ExpInit /\ [][ExpNext]_vars

---------------------------------------------------------------------------
(* prime_check, trial by trial, at the default width *)

PrimeInit ==
    /\ n = DefaultWords
    /\ pc = "loop"
    /\ a \in Values
    /\ loc = PrimeEnter(a)
    /\ b = NoValue /\ m = NoValue /\ res = NoValue
    /\ touched = NoValue /\ text = NoValue /\ out = NoValue

\* one pass of the for loop: a.rng(high.num_bits()), then the two tests
PrimeTrial ==
    /\ pc = "loop"
    /\ loc.k < Trials
    /\ \E rd \in [0 .. (RngCount(num_bits(loc.high)) - 1) -> Word] :
         LET x == rng(loc.a, num_bits(loc.high), rd)
         IN  IF TrialVerdict(a, x, loc.high) = "composite"
             THEN /\ pc' = "ret"
                  /\ res' = FALSE
                  /\ loc' = [loc EXCEPT !.a = x]
             ELSE /\ loc' = [loc EXCEPT !.a = x, !.k = @ + 1]
                  /\ UNCHANGED <<pc, res>>
    /\ UNCHANGED <<n, a, b, m, touched, text, out>>

\* return true after the last trial
PrimeReturnTrue ==
    /\ pc = "loop"
    /\ loc.k >= Trials
    /\ pc' = "ret"
    /\ res' = TRUE
    /\ UNCHANGED <<n, a, b, m, loc, touched, text, out>>

PrimeNext == PrimeTrial \/ PrimeReturnTrue

PrimeSpec == PrimeInit /\ [][PrimeNext]_vars

\* C4: for every prime p and every sequence of words the random source
\* returns, p.prime_check() returns true.
C4_PrimeNeverRejected ==
    pc = "ret" /\ IsPrime(Val(a)) => res = TRUE

---------------------------------------------------------------------------
(* Construction from an integer and shifts, with the indices they touch *)

AccessInit ==
    /\ n \in 1 .. MaxUnaryWords
    /\ pc = "new"
    /\ touched = {}
    /\ a = NoValue /\ b = NoValue /\ m = NoValue /\ loc = NoValue /\ res = NoValue
    /\ text = NoValue /\ out = NoValue

\* Bigint v(x)
Construct ==
    /\ pc = "new"
    /\ \E x \in 0 .. (LongMod - 1) : res' = Bigint(x)
    /\ touched' = CtorTouched
    /\ pc' = "built"
    /\ UNCHANGED <<n, a, b, m, loc, text, out>>

\* v << shift.  After an access outside the array the behaviour is undefined:
\* the run is followed no further.
ShiftLeft ==
    /\ pc \in {"built", "shifted"}
    /\ touched \subseteq Idx
    /\ \E shift \in 0 .. (n * WordBits + 1) :
         /\ res' = Shl(res, shift)
         /\ touched' = ShlTouched(shift)
         /\ loc' = [op |-> "<<", shift |-> shift]
    /\ pc' = "shifted"
    /\ UNCHANGED <<n, a, b, m, text, out>>

\* v >> shift
ShiftRight ==
    /\ pc \in {"built", "shifted"}
    /\ touched \subseteq Idx
    /\ \E shift \in 0 .. (n * WordBits + 1) :
         /\ res' = Shr(res, shift)
         /\ touched' = ShrTouched(shift)
         /\ loc' = [op |-> ">>", shift |-> shift]
    /\ pc' = "shifted"
    /\ UNCHANGED <<n, a, b, m, text, out>>

AccessNext == Construct \/ ShiftLeft \/ ShiftRight

AccessSpec == AccessInit /\ [][AccessNext]_vars

\* C6: at every width, bits = 32 included, construction from a 64-bit integer
\* and the shifts read and write only word indices in [0, bits/32).
C6_AccessInRange == touched \subseteq Idx

---------------------------------------------------------------------------
(* Parsing a string and rendering the value *)

RECURSIVE Strings(_)
Strings(len) ==
    IF len = 0 THEN {<<>>}
    ELSE LET shorter == Strings(len - 1)
         IN  shorter \cup {Append(x, d) : x \in {y \in shorter : Len(y) = len - 1},
                                          d \in Digit \cup {NonHex}}

TextInit ==
    /\ n \in 1 .. MaxUnaryWords
    /\ pc = "call"
    /\ text \in Strings(n * DigitsPerWord)
    /\ a = NoValue /\ b = NoValue /\ m = NoValue /\ loc = NoValue /\ res = NoValue
    /\ touched = NoValue /\ out = NoValue

\* throw std::domain_error
ParseThrow ==
    /\ pc = "call"
    /\ ~string_check(text)
    /\ pc' = "InvalidFormat"
    /\ UNCHANGED <<n, a, b, m, loc, res, touched, text, out>>

\* Bigint v(text)
Parse ==
    /\ pc = "call"
    /\ string_check(text)
    /\ res' \in FromHex(text)
    /\ pc' = "parsed"
    /\ UNCHANGED <<n, a, b, m, loc, touched, text, out>>

\* os << v
Render ==
    /\ pc = "parsed"
    /\ out' = ToHex(res)
    /\ pc' = "rendered"
    /\ UNCHANGED <<n, a, b, m, loc, res, touched, text>>

TextNext == ParseThrow \/ Parse \/ Render

TextSpec == TextInit /\ [][TextNext]_vars

\* s with its leading zeros stripped, a single 0 when s is all zeros
RECURSIVE Stripped(_)
Stripped(x) ==
    IF Len(x) = 0 THEN <<0>>
    ELSE IF x[1] = 0 THEN Stripped(Tail(x))
    ELSE x

\* C7: for every non-empty digit string s no longer than bits/4, rendering
\* the value constructed from s yields s with its leading zeros stripped.
C7_HexRoundTrip ==
    pc = "rendered" /\ Len(text) >= 1 => out = Stripped(text)

====
